---- MODULE Spec2Model ----
(***************************************************************************)
(* A model of gcemeta, a client of the GCE metadata service.               *)
(*                                                                         *)
(* The repository holds two sibling implementations:                       *)
(*   "lib"  : src/src/lib.rs, the async Client (tokio RwLock caches,       *)
(*            tokio::select! probe race);                                  *)
(*   "meta" : src/src/metadata.rs, the blocking free functions (atomic     *)
(*            state tag + static mut cell, lazy_static ON_GCE, mpsc probe  *)
(*            race).                                                       *)
(* A behaviour runs one of the two; impl says which.                       *)
(*                                                                         *)
(* Six specifications share the variables:                                 *)
(*   Spec       : the cached getters (impl_cache_fn / impl_cached_meta_fn) *)
(*   SpecLive   : the cached getters, with fair scheduling                 *)
(*   SpecClone  : the cached getters called through clones of a Client     *)
(*   SpecDetect : on-environment detection (Client::on_gce / on_gce)       *)
(*   SpecFetch  : one fetch and the getters built on it                    *)
(*   SpecProbe  : the header and DNS probes, each on its own               *)
(***************************************************************************)
EXTENDS Naturals, Sequences, FiniteSets

\* ------------------------------------------------------------------ bounds

\* Number of concurrent callers (threads or tasks).
NumCallers == 3

\* Total number of getter calls made in one behaviour.
MaxCalls == 3

Callers == 1..NumCallers

VARIABLES
    impl,          \* "lib" or "meta": the implementation this behaviour runs
    pc,            \* pc[c]: where caller c is inside the call it is making
    result,        \* result[c]: what c's last finished call returned
    calls,         \* number of calls started so far
    \* --- cached getters
    cache,         \* lib: *self.cache.$name ; meta: CACHE   (an Option<String>)
    lock,          \* lib: the tokio RwLock around the entry
    State,         \* meta: STATE, the AtomicU8 state tag
    writing,       \* meta: a non-atomic store to CACHE is in progress
    pending,       \* pending[c]: the value c's fetch returned and c is storing
    fetches,       \* history: number of fetches started
    failures,      \* history: number of fetches that failed
    ownFetch,      \* history: ownFetch[c], c ran a fetch in its current call
    waitedOn,      \* history: waitedOn[c], the error of the first failed attempt
                   \* that ended while c's current call was blocked on it
    blocked,       \* history: blocked[c], c's current call has waited for a
                   \* fetch that another caller was running
    spins,         \* history: spins[c], the turns of the waiter's loop that c
                   \* has made in the wait it is in (meta)
    clients,       \* lib: clients[c], the Client that caller c calls through
    \* --- on-environment detection
    envVar,        \* the process environment: GCE_METADATA_HOST, or "unset"
    metadata_host, \* lib: self.env.metadata_host, as read at construction
    startEnv,      \* history: GCE_METADATA_HOST when the client was constructed
                   \* (lib.rs) or the process started (metadata.rs)
    on_gce,        \* lib: *self.cache.on_gce ; meta: ON_GCE   (an Option<bool>)
    ogLock,        \* lib: the tokio RwLock around cache.on_gce
    once,          \* meta: the lazy_static cell: "new", "running" or "done"
    headerProbe,   \* the header probe: "idle", "running", "true", "false", "dropped"
    dnsProbe,      \* the DNS probe: "idle", "running", "true", "false"
    chan,          \* meta: the reports sent on tx and not yet received
    elapsed,       \* seconds since the probes were launched
    deadline,      \* the value of elapsed at which the armed timeout fires
    productName,   \* meta, linux: /sys/class/dmi/id/product_name names Google
    hostSeen,      \* history: what the detection read as the override marker
    races,         \* history: number of times the probes were launched
    seen,          \* history: the reports the detection had taken when it resolved
    \* --- plain getters
    fetch,         \* one getter call: the getter, its argument, the server's
                   \* answer, how far the call is, and what it returned
    requests,      \* history: the HTTP requests issued so far
    \* --- the probes, each on its own
    probe          \* one run of a probe: the probe, what its lookup comes to,
                   \* what it has sent on tx, and what it reported

cacheVars == <<cache, lock, State, writing, pending, fetches, failures, ownFetch, waitedOn,
              blocked, spins, clients>>
detectVars == <<envVar, metadata_host, startEnv, on_gce, ogLock, once, headerProbe, dnsProbe, chan,
               elapsed, deadline, productName, hostSeen, races, seen>>

fetchVars == <<fetch, requests>>
probeVars == <<probe>>

\* the variables the cached getters leave alone
nonCacheVars == <<detectVars, fetchVars, probeVars>>

vars == <<impl, pc, result, calls, cacheVars, nonCacheVars>>

\* ----------------------------------------------------------------- strings
\* A string is a sequence of one-character strings.

\* char::is_whitespace, on the characters the model uses
WhiteSpace == {" ", "\t", "\n", "\r"}

RECURSIVE TrimStart(_)
TrimStart(s) ==
    IF s = <<>> THEN <<>>
    ELSE IF Head(s) \in WhiteSpace THEN TrimStart(Tail(s))
    ELSE s

RECURSIVE TrimEnd(_)
TrimEnd(s) ==
    IF s = <<>> THEN <<>>
    ELSE IF s[Len(s)] \in WhiteSpace THEN TrimEnd(SubSeq(s, 1, Len(s) - 1))
    ELSE s

\* str::trim
Trim(s) == TrimEnd(TrimStart(s))

\* ----------------------------------------------------------------- results

\* Option<String>
None == [some |-> FALSE, val |-> <<>>]
Some(v) == [some |-> TRUE, val |-> v]

\* Result<_, Error>: Ok(v), Ok(None) and Err(kind) with the status it carries
Ok(v) == [ok |-> TRUE, some |-> TRUE, val |-> v, err |-> "", status |-> 0]
OkNone == [ok |-> TRUE, some |-> FALSE, val |-> <<>>, err |-> "", status |-> 0]
Err(kind, code) == [ok |-> FALSE, some |-> FALSE, val |-> <<>>, err |-> kind, status |-> code]

\* no call of this caller has returned yet
NoResult == [ok |-> FALSE, some |-> FALSE, val |-> <<>>, err |-> "(none)", status |-> 0]

\* --------------------------------------------------------------- responses
\* What one HTTP exchange with the metadata server can come to.

StatusCodes == {200, 404, 500}

Bodies == {<<"p", "1">>, <<" ", "p", "2", "\n">>}

\* "ok": the body arrives and is UTF-8; otherwise reading or decoding it fails
BodyQuality == {"ok", "invalid_utf8", "read_error"}

Responses ==
    {[kind |-> "transport", status |-> 0, body |-> <<>>, bodyq |-> "ok"]}
    \cup [kind : {"http"}, status : StatusCodes, body : Bodies, bodyq : BodyQuality]

\* lib.rs Client::get_parts: the response, or the error of a failed exchange
get_parts(resp) ==
    IF resp.kind = "transport" THEN Err("Http", 0)
    ELSE IF resp.status = 200 THEN Ok(resp.body)
    ELSE Err("StatusCode", resp.status)

\* lib.rs Client::get
get(resp, trim) ==
    LET parts == get_parts(resp) IN
    IF ~parts.ok THEN parts
    ELSE IF resp.bodyq = "read_error" THEN Err("Http", 0)
    ELSE IF resp.bodyq = "invalid_utf8" THEN Err("Encoding", 0)
    ELSE Ok(IF trim /\ Len(Trim(resp.body)) # Len(resp.body)
            THEN Trim(resp.body) ELSE resp.body)

\* metadata.rs get_meta
get_meta(resp) ==
    IF resp.kind = "transport" THEN Err("HttpRequest", 0)
    ELSE IF resp.status = 200
         THEN IF resp.bodyq = "ok" THEN Ok(resp.body) ELSE Err("HttpRequest", 0)
    ELSE Err("HttpResponse", resp.status)

\* metadata_get without the 404 arm
metadata_getNoMap(resp) == get_meta(resp)

\* metadata.rs get: a 404 is `Ok(None)`
metadata_get(resp) ==
    LET r == get_meta(resp) IN
    IF r.ok THEN r
    ELSE IF r.err = "HttpResponse" /\ r.status = 404 THEN OkNone
    ELSE r

\* metadata.rs trim
trim(s) == Trim(s)

\* metadata.rs hostname: `get_meta("instance/hostname").map(trim)`
metadata_hostname(resp) ==
    LET r == get_meta(resp) IN
    IF r.ok THEN Ok(trim(r.val)) ELSE r

\* metadata.rs instance_attribute_value, project_attribute_value
instance_attribute_value(resp) == metadata_get(resp)

project_attribute_value(resp) == metadata_get(resp)

\* `s.split('/').last()`: what follows the last '/', or all of s
RECURSIVE LastSegment(_)
LastSegment(s) ==
    IF s = <<>> THEN <<>>
    ELSE IF s[Len(s)] = "/" THEN <<>>
    ELSE Append(LastSegment(SubSeq(s, 1, Len(s) - 1)), s[Len(s)])

\* parse_zone without `.filter(|x| !x.is_empty())`
parse_zone_unfiltered(s) == Ok(LastSegment(s))

\* metadata.rs parse_zone
parse_zone(s) ==
    IF LastSegment(s) # <<>> THEN Ok(LastSegment(s)) ELSE Err("MetadataParse(zone)", 0)

\* metadata.rs zone: `get_meta("instance/zone").map(trim).and_then(parse_zone)`
metadata_zone(resp) ==
    LET r == get_meta(resp) IN
    IF r.ok THEN parse_zone(trim(r.val)) ELSE r

\* lib.rs Client::zone: `Ok(s.split('/').last().unwrap_or("").to_owned())`
zone(resp) ==
    LET r == get(resp, TRUE) IN
    IF r.ok THEN Ok(LastSegment(r.val)) ELSE r

\* lib.rs Client::hostname: `self.get(path!("instance/hostname"), true)`
hostname(resp) == get(resp, TRUE)

\* lib.rs Client::instance_attr, Client::project_attr
instance_attr(resp) == get(resp, FALSE)

project_attr(resp) == get(resp, FALSE)

\* ------------------------------------------------------------- tokio RwLock
\* A fair (FIFO) readers-writer lock: [readers, writer, queue]; writer 0 = none.

NoLock == [readers |-> {}, writer |-> 0, queue |-> <<>>]

\* c joins the queue asking for the lock in mode "r" or "w"
Enqueue(l, c, mode) == [l EXCEPT !.queue = Append(@, <<c, mode>>)]

\* the request at the head of the queue is c's and can be granted now
CanAcquire(l, c) ==
    /\ l.queue # <<>>
    /\ Head(l.queue)[1] = c
    /\ l.writer = 0
    /\ Head(l.queue)[2] = "w" => l.readers = {}

Acquire(l, c) ==
    IF Head(l.queue)[2] = "w"
    THEN [l EXCEPT !.writer = c, !.queue = Tail(@)]
    ELSE [l EXCEPT !.readers = @ \cup {c}, !.queue = Tail(@)]

\* dropping c's guard
Release(l, c) ==
    [l EXCEPT !.readers = @ \ {c}, !.writer = IF @ = c THEN 0 ELSE @]

\* ------------------------------------------------------- lib.rs: Client
\* A Client, as far as its cache goes: `cache: Arc<Cache>`, the allocation the
\* Arc points at.

\* no Client
NoClient == [cache |-> 0]

\* Client::new: `cache: Default::default()`, a new allocation; one Client is
\* constructed in a behaviour, and its cache is the entry the model follows
Client_new == [cache |-> 1]

\* the allocations in use
Arcs == {clients[c].cache : c \in Callers}

\* clone with a cache of its own for the new Client (`Arc::new(Cache::default())`)
cloneFresh(self) == [cache |-> 1 + Cardinality(Arcs \ {0})]

\* `impl Clone for Client`: `cache: self.cache.clone()`, Arc::clone, a second
\* pointer to the same allocation
clone(self) == [cache |-> self.cache]

\* ------------------------------------------------- lib.rs: impl_cache_fn!

\* the callers blocked on the entry's lock
LibWaiters == {lock.queue[i][1] : i \in DOMAIN lock.queue}

\* a caller starts `$name()`: it asks for the read lock
LibCall(c) ==
    /\ impl = "lib"
    /\ pc[c] = "idle"
    /\ calls < MaxCalls
    /\ calls' = calls + 1
    /\ lock' = Enqueue(lock, c, "r")
    /\ pc' = [pc EXCEPT ![c] = "read_wait"]
    /\ result' = [result EXCEPT ![c] = NoResult]
    /\ ownFetch' = [ownFetch EXCEPT ![c] = FALSE]
    /\ waitedOn' = [waitedOn EXCEPT ![c] = NoResult]
    /\ UNCHANGED <<impl, cache, State, writing, pending, fetches, failures>>
    /\ blocked' = [blocked EXCEPT ![c] = \E d \in Callers : pc[d] = "fetching"]
    /\ UNCHANGED <<spins, clients, nonCacheVars>>

\* `self.cache.$name.read().await` is granted
LibReadLocked(c) ==
    /\ impl = "lib"
    /\ pc[c] = "read_wait"
    /\ CanAcquire(lock, c)
    /\ lock' = Acquire(lock, c)
    /\ pc' = [pc EXCEPT ![c] = "reading"]
    /\ UNCHANGED <<impl, result, calls, cache, State, writing, pending, fetches, failures,
                   ownFetch, waitedOn>>
    /\ UNCHANGED <<blocked, spins, clients, nonCacheVars>>

\* LibReadCheck with the read guard still held when the write lock is asked for
LibReadCheckKeepsGuard(c) ==
    /\ impl = "lib"
    /\ pc[c] = "reading"
    /\ IF cache.some
       THEN /\ result' = [result EXCEPT ![c] = Ok(cache.val)]
            /\ pc' = [pc EXCEPT ![c] = "idle"]
            /\ lock' = Release(lock, c)
       ELSE /\ lock' = Enqueue(lock, c, "w")
            /\ pc' = [pc EXCEPT ![c] = "write_wait"]
            /\ UNCHANGED result
    /\ UNCHANGED <<impl, calls, cache, State, writing, pending, fetches, failures,
                   ownFetch, waitedOn>>
    /\ UNCHANGED <<blocked, spins, clients, nonCacheVars>>

\* `if let Some(value) = ... .clone() { return Ok(value) }`, the read guard
\* dropped at the end of the statement; otherwise `self.cache.$name.write()`
LibReadCheck(c) ==
    /\ impl = "lib"
    /\ pc[c] = "reading"
    /\ IF cache.some
       THEN /\ result' = [result EXCEPT ![c] = Ok(cache.val)]
            /\ pc' = [pc EXCEPT ![c] = "idle"]
            /\ lock' = Release(lock, c)
       ELSE /\ lock' = Enqueue(Release(lock, c), c, "w")
            /\ pc' = [pc EXCEPT ![c] = "write_wait"]
            /\ UNCHANGED result
    /\ UNCHANGED <<impl, calls, cache, State, writing, pending, fetches, failures,
                   ownFetch, waitedOn>>
    /\ UNCHANGED <<blocked, spins, clients, nonCacheVars>>

\* `self.cache.$name.write().await` is granted
LibWriteLocked(c) ==
    /\ impl = "lib"
    /\ pc[c] = "write_wait"
    /\ CanAcquire(lock, c)
    /\ lock' = Acquire(lock, c)
    /\ pc' = [pc EXCEPT ![c] = "locked"]
    /\ UNCHANGED <<impl, result, calls, cache, State, writing, pending, fetches, failures,
                   ownFetch, waitedOn>>
    /\ UNCHANGED <<blocked, spins, clients, nonCacheVars>>

\* LibWriteCheck without the second look: the caller fetches whatever the
\* entry holds
LibWriteCheckNoRecheck(c) ==
    /\ impl = "lib"
    /\ pc[c] = "locked"
    /\ pc' = [pc EXCEPT ![c] = "fetching"]
    /\ fetches' = fetches + 1
    /\ ownFetch' = [ownFetch EXCEPT ![c] = TRUE]
    /\ blocked' = [d \in Callers |-> blocked[d] \/ d \in LibWaiters]
    /\ UNCHANGED <<impl, result, calls, cache, lock, State, writing, pending, failures,
                   waitedOn>>
    /\ UNCHANGED <<spins, clients, nonCacheVars>>

\* `if let Some(value) = lock.clone() { Ok(value) } else { self.get(..) ...`:
\* the second look at the entry, under the write lock
LibWriteCheck(c) ==
    /\ impl = "lib"
    /\ pc[c] = "locked"
    /\ IF cache.some
       THEN /\ result' = [result EXCEPT ![c] = Ok(cache.val)]
            /\ pc' = [pc EXCEPT ![c] = "idle"]
            /\ lock' = Release(lock, c)
            /\ UNCHANGED <<fetches, ownFetch>>
       ELSE /\ pc' = [pc EXCEPT ![c] = "fetching"]
            /\ fetches' = fetches + 1
            /\ ownFetch' = [ownFetch EXCEPT ![c] = TRUE]
            /\ UNCHANGED <<result, lock>>
    /\ UNCHANGED <<impl, calls, cache, State, writing, pending, failures, waitedOn>>
    /\ blocked' = [d \in Callers |-> blocked[d] \/ (~cache.some /\ d \in LibWaiters)]
    /\ UNCHANGED <<spins, clients, nonCacheVars>>

\* `let value = self.get(path!($path), $trim).await?;` ends, with the server's
\* answer resp; `*lock = Some(value.clone()); Ok(value)` or the error returned,
\* the write guard dropped either way
LibFetchDone(c, resp) ==
    /\ impl = "lib"
    /\ pc[c] = "fetching"
    /\ LET value == get(resp, TRUE) IN
       /\ result' = [result EXCEPT ![c] = value]
       /\ cache' = IF value.ok THEN Some(value.val) ELSE cache
       /\ failures' = IF value.ok THEN failures ELSE failures + 1
       /\ waitedOn' = [d \in Callers |->
              IF ~value.ok /\ d \in LibWaiters /\ waitedOn[d] = NoResult
              THEN value ELSE waitedOn[d]]
    /\ lock' = Release(lock, c)
    /\ pc' = [pc EXCEPT ![c] = "idle"]
    /\ UNCHANGED <<impl, calls, State, writing, pending, fetches, ownFetch>>
    /\ UNCHANGED <<blocked, spins, clients, nonCacheVars>>

LibCacheNext ==
    \E c \in Callers :
        \/ LibCall(c)
        \/ LibReadLocked(c)
        \/ LibReadCheck(c)
        \/ LibWriteLocked(c)
        \/ LibWriteCheck(c)
        \/ \E resp \in Responses : LibFetchDone(c, resp)

\* ------------------------------------- metadata.rs: impl_cached_meta_fn!

UNINITIALIZED == 0
INITIALIZING == 1
INITIALIZED == 2

\* The number of turns of the waiter's loop that are counted; further turns
\* leave the count where it is.
MaxSpins == 2

\* the count of turns after one more turn
Polled(n) == IF n < MaxSpins THEN n + 1 ELSE n

\* the callers spinning in the INITIALIZING arm
MetaWaiters == {c \in Callers : pc[c] = "spin"}

\* what the bytes of a String read during a store to it may look like
Garbage == <<"?">>

\* `unsafe { CACHE.clone() }`: the cell's content, unless a store to CACHE is
\* in progress; a read that overlaps a store is a data race, and may yield any
\* Option at all
ReadCache ==
    IF writing
    THEN {None} \cup {Some(Trim(b)) : b \in Bodies} \cup {Some(Garbage)}
    ELSE {cache}

\* MetaCall with a compare-and-swap that leaves the tag as it was
\* (`compare_and_swap(UNINITIALIZED, UNINITIALIZED, ..)`)
MetaCallNoTag(c) ==
    /\ impl = "meta"
    /\ pc[c] = "idle"
    /\ calls < MaxCalls
    /\ calls' = calls + 1
    /\ result' = [result EXCEPT ![c] = NoResult]
    /\ waitedOn' = [waitedOn EXCEPT ![c] = NoResult]
    /\ IF State = UNINITIALIZED
       THEN /\ pc' = [pc EXCEPT ![c] = "fetching"]
            /\ fetches' = fetches + 1
            /\ ownFetch' = [ownFetch EXCEPT ![c] = TRUE]
            /\ UNCHANGED State
       ELSE /\ pc' = [pc EXCEPT ![c] = IF State = INITIALIZING THEN "spin" ELSE "init_read"]
            /\ ownFetch' = [ownFetch EXCEPT ![c] = FALSE]
            /\ UNCHANGED <<State, fetches>>
    /\ UNCHANGED <<impl, cache, lock, writing, pending, failures>>
    /\ blocked' = [blocked EXCEPT ![c] = State = INITIALIZING]
    /\ UNCHANGED <<spins, clients, nonCacheVars>>

\* MetaCall with `STATE.swap(INITIALIZING)` in place of the compare-and-swap:
\* the tag is overwritten whatever it was
MetaCallSwap(c) ==
    /\ impl = "meta"
    /\ pc[c] = "idle"
    /\ calls < MaxCalls
    /\ calls' = calls + 1
    /\ result' = [result EXCEPT ![c] = NoResult]
    /\ waitedOn' = [waitedOn EXCEPT ![c] = NoResult]
    /\ State' = INITIALIZING
    /\ IF State = UNINITIALIZED
       THEN /\ pc' = [pc EXCEPT ![c] = "fetching"]
            /\ fetches' = fetches + 1
            /\ ownFetch' = [ownFetch EXCEPT ![c] = TRUE]
       ELSE /\ pc' = [pc EXCEPT ![c] = IF State = INITIALIZING THEN "spin" ELSE "init_read"]
            /\ ownFetch' = [ownFetch EXCEPT ![c] = FALSE]
            /\ UNCHANGED fetches
    /\ UNCHANGED <<impl, cache, lock, writing, pending, failures>>
    /\ blocked' = [blocked EXCEPT ![c] = State = INITIALIZING]
    /\ UNCHANGED <<spins, clients, nonCacheVars>>

\* `match STATE.compare_and_swap(UNINITIALIZED, INITIALIZING, SeqCst)`: the
\* arm the caller takes (and, in the UNINITIALIZED arm, the call of get_meta)
MetaCall(c) ==
    /\ impl = "meta"
    /\ pc[c] = "idle"
    /\ calls < MaxCalls
    /\ calls' = calls + 1
    /\ result' = [result EXCEPT ![c] = NoResult]
    /\ waitedOn' = [waitedOn EXCEPT ![c] = NoResult]
    /\ IF State = UNINITIALIZED
       THEN /\ State' = INITIALIZING
            /\ pc' = [pc EXCEPT ![c] = "fetching"]
            /\ fetches' = fetches + 1
            /\ ownFetch' = [ownFetch EXCEPT ![c] = TRUE]
       ELSE /\ pc' = [pc EXCEPT ![c] = IF State = INITIALIZING THEN "spin" ELSE "init_read"]
            /\ ownFetch' = [ownFetch EXCEPT ![c] = FALSE]
            /\ UNCHANGED <<State, fetches>>
    /\ UNCHANGED <<impl, cache, lock, writing, pending, failures>>
    /\ blocked' = [blocked EXCEPT ![c] = State = INITIALIZING]
    /\ UNCHANGED <<spins, clients, nonCacheVars>>

\* MetaFetchDone without `STATE.store(UNINITIALIZED)` in the Err arm: a failed
\* attempt leaves the tag at INITIALIZING
MetaFetchDonePoison(c, resp) ==
    /\ impl = "meta"
    /\ pc[c] = "fetching"
    /\ LET value == get_meta(resp) IN
       IF value.ok
       THEN /\ pending' = [pending EXCEPT ![c] = Trim(value.val)]
            /\ writing' = TRUE
            /\ pc' = [pc EXCEPT ![c] = "storing"]
            /\ UNCHANGED <<State, result, failures, waitedOn>>
       ELSE /\ result' = [result EXCEPT ![c] = value]
            /\ failures' = failures + 1
            /\ waitedOn' = [d \in Callers |->
                   IF d \in MetaWaiters /\ waitedOn[d] = NoResult
                   THEN value ELSE waitedOn[d]]
            /\ pc' = [pc EXCEPT ![c] = "idle"]
            /\ UNCHANGED <<State, pending, writing>>
    /\ UNCHANGED <<impl, calls, cache, lock, fetches, ownFetch>>
    /\ UNCHANGED <<blocked, spins, clients, nonCacheVars>>

\* MetaFetchDone with the tag set to INITIALIZED before the value is written
\* (`STATE.store(INITIALIZED)` ahead of `CACHE = Some(..)`)
MetaFetchDoneTagFirst(c, resp) ==
    /\ impl = "meta"
    /\ pc[c] = "fetching"
    /\ LET value == get_meta(resp) IN
       IF value.ok
       THEN /\ pending' = [pending EXCEPT ![c] = Trim(value.val)]
            /\ writing' = TRUE
            /\ State' = INITIALIZED
            /\ pc' = [pc EXCEPT ![c] = "storing"]
            /\ UNCHANGED <<result, failures, waitedOn>>
       ELSE /\ State' = UNINITIALIZED
            /\ result' = [result EXCEPT ![c] = value]
            /\ failures' = failures + 1
            /\ waitedOn' = [d \in Callers |->
                   IF d \in MetaWaiters /\ waitedOn[d] = NoResult
                   THEN value ELSE waitedOn[d]]
            /\ pc' = [pc EXCEPT ![c] = "idle"]
            /\ UNCHANGED <<pending, writing>>
    /\ UNCHANGED <<impl, calls, cache, lock, fetches, ownFetch>>
    /\ UNCHANGED <<blocked, spins, clients, nonCacheVars>>

\* get_meta($suffix) returns. Ok(v): the owner begins `CACHE = Some($map(v))`.
\* Err(why): `STATE.store(UNINITIALIZED); Err(why.into())`
MetaFetchDone(c, resp) ==
    /\ impl = "meta"
    /\ pc[c] = "fetching"
    /\ LET value == get_meta(resp) IN
       IF value.ok
       THEN /\ pending' = [pending EXCEPT ![c] = Trim(value.val)]
            /\ writing' = TRUE
            /\ pc' = [pc EXCEPT ![c] = "storing"]
            /\ UNCHANGED <<State, result, failures, waitedOn>>
       ELSE /\ State' = UNINITIALIZED
            /\ result' = [result EXCEPT ![c] = value]
            /\ failures' = failures + 1
            /\ waitedOn' = [d \in Callers |->
                   IF d \in MetaWaiters /\ waitedOn[d] = NoResult
                   THEN value ELSE waitedOn[d]]
            /\ pc' = [pc EXCEPT ![c] = "idle"]
            /\ UNCHANGED <<pending, writing>>
    /\ UNCHANGED <<impl, calls, cache, lock, fetches, ownFetch>>
    /\ UNCHANGED <<blocked, spins, clients, nonCacheVars>>

\* the store `CACHE = Some($map(v))` completes
MetaStoreCache(c) ==
    /\ impl = "meta"
    /\ pc[c] = "storing"
    /\ cache' = Some(pending[c])
    /\ writing' = FALSE
    /\ pc' = [pc EXCEPT ![c] = "stored"]
    /\ UNCHANGED <<impl, result, calls, lock, State, pending, fetches, failures,
                   ownFetch, waitedOn>>
    /\ UNCHANGED <<blocked, spins, clients, nonCacheVars>>

\* `STATE.store(INITIALIZED, Ordering::SeqCst)`
MetaStoreState(c) ==
    /\ impl = "meta"
    /\ pc[c] = "stored"
    /\ State' = INITIALIZED
    /\ pc' = [pc EXCEPT ![c] = "own_read"]
    /\ UNCHANGED <<impl, result, calls, cache, lock, writing, pending, fetches, failures,
                   ownFetch, waitedOn>>
    /\ UNCHANGED <<blocked, spins, clients, nonCacheVars>>

\* `CACHE.clone().unwrap()` of the owner (pc "own_read") and of a caller that
\* found INITIALIZED (pc "init_read"): the value, or a panic on None
MetaUnwrapRead(c) ==
    /\ impl = "meta"
    /\ pc[c] \in {"own_read", "init_read"}
    /\ \E o \in ReadCache :
          IF o.some
          THEN /\ result' = [result EXCEPT ![c] = Ok(o.val)]
               /\ pc' = [pc EXCEPT ![c] = "idle"]
          ELSE /\ result' = [result EXCEPT ![c] = Err("(panic)", 0)]
               /\ pc' = [pc EXCEPT ![c] = "panicked"]
    /\ UNCHANGED <<impl, calls, cache, lock, State, writing, pending, fetches, failures,
                   ownFetch, waitedOn>>
    /\ UNCHANGED <<blocked, spins, clients, nonCacheVars>>

\* MetaSpin with a waiter that, finding the tag back at UNINITIALIZED, takes
\* the attempt over and fetches itself
MetaSpinRetry(c) ==
    /\ impl = "meta"
    /\ pc[c] = "spin"
    /\ IF State = UNINITIALIZED
       THEN /\ State' = INITIALIZING
            /\ pc' = [pc EXCEPT ![c] = "fetching"]
            /\ fetches' = fetches + 1
            /\ ownFetch' = [ownFetch EXCEPT ![c] = TRUE]
       ELSE /\ pc' = [pc EXCEPT ![c] = IF State = INITIALIZING THEN "spin" ELSE "wait_read"]
            /\ UNCHANGED <<State, fetches, ownFetch>>
    /\ spins' = [spins EXCEPT ![c] = IF State = INITIALIZING THEN Polled(@) ELSE 0]
    /\ UNCHANGED <<impl, result, calls, cache, lock, writing, pending, failures, waitedOn>>
    /\ UNCHANGED <<blocked, clients, nonCacheVars>>

\* MetaSpin with a waiter that loads the tag once and goes on to the cell
\* whatever the tag says (no `INITIALIZING => continue`)
MetaSpinNoLoop(c) ==
    /\ impl = "meta"
    /\ pc[c] = "spin"
    /\ pc' = [pc EXCEPT ![c] = "wait_read"]
    /\ spins' = [spins EXCEPT ![c] = 0]
    /\ UNCHANGED <<impl, result, calls, cache, lock, State, writing, pending, fetches,
                   failures, ownFetch, waitedOn>>
    /\ UNCHANGED <<blocked, clients, nonCacheVars>>

\* one turn of `loop { match STATE.load(SeqCst) { INITIALIZING => continue,
\* _ => break ... } }`
MetaSpin(c) ==
    /\ impl = "meta"
    /\ pc[c] = "spin"
    /\ pc' = [pc EXCEPT ![c] = IF State = INITIALIZING THEN "spin" ELSE "wait_read"]
    /\ spins' = [spins EXCEPT ![c] = IF State = INITIALIZING THEN Polled(@) ELSE 0]
    /\ UNCHANGED <<impl, result, calls, cache, lock, State, writing, pending, fetches,
                   failures, ownFetch, waitedOn>>
    /\ UNCHANGED <<blocked, clients, nonCacheVars>>

\* MetaWaitRead with a waiter that does not look at the cell: whatever the
\* owner's attempt came to, it reports Uninitialized
MetaWaitReadNoValue(c) ==
    /\ impl = "meta"
    /\ pc[c] = "wait_read"
    /\ result' = [result EXCEPT ![c] = Err("Uninitialized", 0)]
    /\ pc' = [pc EXCEPT ![c] = "idle"]
    /\ UNCHANGED <<impl, calls, cache, lock, State, writing, pending, fetches, failures,
                   ownFetch, waitedOn>>
    /\ UNCHANGED <<blocked, spins, clients, nonCacheVars>>

\* `break unsafe { CACHE.clone() }.ok_or(ErrorKind::Uninitialized.into())`
MetaWaitRead(c) ==
    /\ impl = "meta"
    /\ pc[c] = "wait_read"
    /\ \E o \in ReadCache :
          result' = [result EXCEPT ![c] =
                        IF o.some THEN Ok(o.val) ELSE Err("Uninitialized", 0)]
    /\ pc' = [pc EXCEPT ![c] = "idle"]
    /\ UNCHANGED <<impl, calls, cache, lock, State, writing, pending, fetches, failures,
                   ownFetch, waitedOn>>
    /\ UNCHANGED <<blocked, spins, clients, nonCacheVars>>

MetaCacheNext ==
    \E c \in Callers :
        \/ MetaCall(c)
        \/ \E resp \in Responses : MetaFetchDone(c, resp)
        \/ MetaStoreCache(c)
        \/ MetaStoreState(c)
        \/ MetaUnwrapRead(c)
        \/ MetaSpin(c)
        \/ MetaWaitRead(c)

\* -------------------------------------------------- on-environment detection

\* Bound on the model's clock: seconds of a probe race that are told apart.
MaxElapsed == 6

\* config.probe_timeout (lib.rs), recv_timeout's Duration::from_secs (metadata.rs)
ProbeTimeout == 5

\* Option<bool>
NoBool == [some |-> FALSE, val |-> FALSE]
SomeBool(b) == [some |-> TRUE, val |-> b]

\* the values of GCE_METADATA_HOST the model tells apart
EnvValues == {"unset", "localhost:8080"}

\* what the header probe's request can come to: no response, or a response
\* with this Metadata-Flavor header
HeaderAnswers == {"transport_error", "absent", "Google", "other"}

\* HeaderReport looking only at whether the header is there
HeaderReportPresent(a) == a \in {"Google", "other"}

\* `resp.headers().get(flavor_name) == Some(flavor_value)`, `unwrap_or(false)`
\* (lib.rs) and has_meta_header's closure (metadata.rs)
HeaderReport(a) == a = "Google"

METADATA_IP == "169.254.169.254"
Addrs == {METADATA_IP, "10.128.0.2", "127.0.0.1"}

\* what resolving metadata.google.internal can come to
DnsAnswers == [ok : BOOLEAN, addrs : SUBSET Addrs]

\* LibDnsReport asking for the documented address
LibDnsReportTarget(a) == a.ok /\ METADATA_IP \in a.addrs

\* lib.rs: `.to_socket_addrs().map(|addrs| addrs.len() > 0).unwrap_or(false)`
LibDnsReport(a) == a.ok /\ Cardinality(a.addrs) > 0

\* has_target_ip with `all` in place of `any`
has_target_ip_all(a, ip) == a.ok /\ \A x \in a.addrs : x = ip

\* metadata.rs has_target_ip: `.map(|mut xs| xs.any(|x| x == addr)).unwrap_or(false)`
has_target_ip(a, ip) == a.ok /\ \E x \in a.addrs : x = ip

\* test_on_gce: `has_target_ip(tx, "metadata.google.internal", METADATA_IP)`
MetaDnsReport(a) == has_target_ip(a, METADATA_IP)

Unresolved == [how |-> "(unresolved)", at |-> 0, header |-> "idle", dns |-> "idle", got |-> <<>>]

\* the record of a resolution
Resolution(how, got) ==
    [how |-> how, at |-> elapsed, header |-> headerProbe, dns |-> dnsProbe, got |-> got]

ToStr(b) == IF b THEN "true" ELSE "false"

\* a caller's detection is waiting on the probe race
Racing == \E c \in Callers : pc[c] \in {"select", "recv1", "recv2"}

\* ---- HTTP requests
\* header names are case-insensitive and are written in lower case here

\* lib.rs Config::default user_agent, metadata.rs USER_AGENT
USER_AGENT == "github.com/mechiru/gcemeta"

\* the header pairs the implementations attach
UserAgentHeader == <<"user-agent", USER_AGENT>>
FlavorHeader == <<"metadata-flavor", "Google">>

\* the host a value of GCE_METADATA_HOST stands for:
\* `host.unwrap_or_else(|| self.config.metadata_ip.clone())` (lib.rs),
\* `env::var(METADATA_HOST_VAR).unwrap_or_else(|_| METADATA_IP.into())` (metadata.rs)
HostOf(v) == IF v = "unset" THEN METADATA_IP ELSE v

\* the header probe's request. lib.rs: Request::get(metadata_ip "/") with
\* flavor_name: flavor_value and USER_AGENT; metadata.rs:
\* `httpc_get(format!("http://{}", METADATA_IP)).prepare()`, the user agent only
ProbeRequest(i) ==
    [by |-> "probe", host |-> METADATA_IP,
     headers |-> IF i = "lib" THEN {FlavorHeader, UserAgentHeader} ELSE {UserAgentHeader}]

\* FetchRequest without the identification header
FetchRequestNoFlavor(i) ==
    [by |-> "fetch", host |-> IF i = "lib" THEN HostOf(metadata_host) ELSE HostOf(envVar),
     headers |-> {UserAgentHeader}]

\* FetchRequest with lib.rs reading the environment at every fetch
FetchRequestReadsEnv(i) ==
    [by |-> "fetch", host |-> HostOf(envVar), headers |-> {FlavorHeader, UserAgentHeader}]

\* a fetch's request. lib.rs get_parts: the host captured at construction;
\* metadata.rs get_meta: the host the environment names now; both attach the
\* two headers
FetchRequest(i) ==
    [by |-> "fetch", host |-> IF i = "lib" THEN HostOf(metadata_host) ELSE HostOf(envVar),
     headers |-> {FlavorHeader, UserAgentHeader}]

\* ---- the probes (both implementations)

\* the header probe's request ends; metadata.rs: `let _ = tx.send(ret)`, which
\* fails, unnoticed, once rx is gone
HeaderProbeDone(a) ==
    /\ headerProbe = "running"
    /\ headerProbe' = ToStr(HeaderReport(a))
    /\ chan' = IF impl = "meta" /\ once = "running" THEN Append(chan, HeaderReport(a)) ELSE chan
    /\ UNCHANGED <<impl, pc, result, calls, cacheVars, probeVars, fetchVars, envVar, metadata_host, startEnv, on_gce, ogLock,
                   once, dnsProbe, elapsed, deadline, productName, hostSeen, races, seen>>

\* DnsProbeDone with a report that is written to the flag when it arrives
\* after the detection has resolved
DnsProbeDoneOverwrites(a) ==
    /\ dnsProbe = "running"
    /\ LET on == IF impl = "lib" THEN LibDnsReport(a) ELSE MetaDnsReport(a) IN
       /\ dnsProbe' = ToStr(on)
       /\ chan' = IF impl = "meta" /\ once = "running" THEN Append(chan, on) ELSE chan
       /\ on_gce' = IF on_gce.some THEN SomeBool(on) ELSE on_gce
    /\ UNCHANGED <<impl, pc, result, calls, cacheVars, probeVars, fetchVars, envVar, metadata_host, startEnv, ogLock,
                   once, headerProbe, elapsed, deadline, productName, hostSeen, races, seen>>

\* the DNS probe's resolution ends
DnsProbeDone(a) ==
    /\ dnsProbe = "running"
    /\ LET on == IF impl = "lib" THEN LibDnsReport(a) ELSE MetaDnsReport(a) IN
       /\ dnsProbe' = ToStr(on)
       /\ chan' = IF impl = "meta" /\ once = "running" THEN Append(chan, on) ELSE chan
    /\ UNCHANGED <<impl, pc, result, calls, cacheVars, probeVars, fetchVars, envVar, metadata_host, startEnv, on_gce, ogLock,
                   once, headerProbe, elapsed, deadline, productName, hostSeen, races, seen>>

\* ---- lib.rs: Client::on_gce

\* `self.cache.on_gce.read().await` is asked for
LibOnGceCall(c) ==
    /\ impl = "lib"
    /\ pc[c] = "idle"
    /\ calls < MaxCalls
    /\ calls' = calls + 1
    /\ ogLock' = Enqueue(ogLock, c, "r")
    /\ pc' = [pc EXCEPT ![c] = "read_wait"]
    /\ result' = [result EXCEPT ![c] = NoResult]
    /\ UNCHANGED <<impl, cacheVars, probeVars, fetchVars, envVar, metadata_host, startEnv, on_gce, once, headerProbe, dnsProbe,
                   chan, elapsed, deadline, productName, hostSeen, races, seen>>

\* the read lock is granted
LibOnGceReadLocked(c) ==
    /\ impl = "lib"
    /\ pc[c] = "read_wait"
    /\ CanAcquire(ogLock, c)
    /\ ogLock' = Acquire(ogLock, c)
    /\ pc' = [pc EXCEPT ![c] = "reading"]
    /\ UNCHANGED <<impl, result, calls, cacheVars, probeVars, fetchVars, envVar, metadata_host, startEnv, on_gce, once,
                   headerProbe, dnsProbe, chan, elapsed, deadline, productName, hostSeen,
                   races, seen>>

\* `if let Some(on) = *self.cache.on_gce.read().await { return Ok(on); }`, then
\* `self.cache.on_gce.write()`
LibOnGceReadCheck(c) ==
    /\ impl = "lib"
    /\ pc[c] = "reading"
    /\ IF on_gce.some
       THEN /\ result' = [result EXCEPT ![c] = Ok(on_gce.val)]
            /\ pc' = [pc EXCEPT ![c] = "idle"]
            /\ ogLock' = Release(ogLock, c)
       ELSE /\ ogLock' = Enqueue(Release(ogLock, c), c, "w")
            /\ pc' = [pc EXCEPT ![c] = "write_wait"]
            /\ UNCHANGED result
    /\ UNCHANGED <<impl, calls, cacheVars, probeVars, fetchVars, envVar, metadata_host, startEnv, on_gce, once, headerProbe,
                   dnsProbe, chan, elapsed, deadline, productName, hostSeen, races, seen>>

\* the write lock is granted
LibOnGceWriteLocked(c) ==
    /\ impl = "lib"
    /\ pc[c] = "write_wait"
    /\ CanAcquire(ogLock, c)
    /\ ogLock' = Acquire(ogLock, c)
    /\ pc' = [pc EXCEPT ![c] = "locked"]
    /\ UNCHANGED <<impl, result, calls, cacheVars, probeVars, fetchVars, envVar, metadata_host, startEnv, on_gce, once,
                   headerProbe, dnsProbe, chan, elapsed, deadline, productName, hostSeen,
                   races, seen>>

\* LibOnGceWriteCheck without the second look at the entry
LibOnGceWriteCheckNoRecheck(c) ==
    /\ impl = "lib"
    /\ pc[c] = "locked"
    /\ hostSeen' = metadata_host
    /\ IF metadata_host # "unset"
       THEN /\ on_gce' = SomeBool(TRUE)
            /\ seen' = Resolution("marker", <<>>)
            /\ result' = [result EXCEPT ![c] = Ok(TRUE)]
            /\ pc' = [pc EXCEPT ![c] = "idle"]
            /\ ogLock' = Release(ogLock, c)
            /\ UNCHANGED <<requests, headerProbe, dnsProbe, elapsed, deadline, races>>
       ELSE /\ headerProbe' = "running"
            /\ requests' = requests \cup {ProbeRequest(impl)}
            /\ dnsProbe' = "running"
            /\ elapsed' = 0
            /\ deadline' = ProbeTimeout
            /\ races' = races + 1
            /\ pc' = [pc EXCEPT ![c] = "select"]
            /\ UNCHANGED <<result, ogLock, on_gce, seen>>
    /\ UNCHANGED <<impl, calls, cacheVars, probeVars, fetch, envVar, metadata_host, startEnv, once, chan, productName>>

\* under the write lock: the second look at the entry; then the override
\* marker (`if present { *on_gce = Some(true); return Ok(true); }`); then the
\* probes are started and the select! entered, its sleep armed
LibOnGceWriteCheck(c) ==
    /\ impl = "lib"
    /\ pc[c] = "locked"
    /\ IF on_gce.some
       THEN /\ result' = [result EXCEPT ![c] = Ok(on_gce.val)]
            /\ pc' = [pc EXCEPT ![c] = "idle"]
            /\ ogLock' = Release(ogLock, c)
            /\ UNCHANGED <<requests, on_gce, headerProbe, dnsProbe, elapsed, deadline, hostSeen, races,
                           seen>>
       ELSE /\ hostSeen' = metadata_host
            /\ IF metadata_host # "unset"
               THEN /\ on_gce' = SomeBool(TRUE)
                    /\ seen' = Resolution("marker", <<>>)
                    /\ result' = [result EXCEPT ![c] = Ok(TRUE)]
                    /\ pc' = [pc EXCEPT ![c] = "idle"]
                    /\ ogLock' = Release(ogLock, c)
                    /\ UNCHANGED <<requests, headerProbe, dnsProbe, elapsed, deadline, races>>
               ELSE /\ headerProbe' = "running"
                    /\ requests' = requests \cup {ProbeRequest(impl)}
                    /\ dnsProbe' = "running"
                    /\ elapsed' = 0
                    /\ deadline' = ProbeTimeout
                    /\ races' = races + 1
                    /\ pc' = [pc EXCEPT ![c] = "select"]
                    /\ UNCHANGED <<result, ogLock, on_gce, seen>>
    /\ UNCHANGED <<impl, calls, cacheVars, probeVars, fetch, envVar, metadata_host, startEnv, once, chan, productName>>

\* SelectReady waiting for both probes (a join in place of the race)
SelectReadyJoin ==
    (IF headerProbe \in {"true", "false"} /\ dnsProbe \in {"true", "false"}
     THEN {[branch |-> "header", on |-> headerProbe = "true" \/ dnsProbe = "true"]} ELSE {})
    \cup (IF elapsed >= deadline THEN {[branch |-> "timeout", on |-> FALSE]} ELSE {})

\* SelectReady without the sleep branch
SelectReadyNoTimeout ==
    (IF headerProbe = "true" THEN {[branch |-> "header", on |-> TRUE]} ELSE {})
    \cup (IF dnsProbe = "true" THEN {[branch |-> "dns", on |-> TRUE]} ELSE {})

\* the branches of the select! that can complete now, each with its value:
\*   true = meta => true, Ok(true) = name => true, _ = sleep(probe_timeout) => false
\* (a branch whose future completes with a value its pattern refuses is
\* disabled, and the select! goes on waiting for the others)
SelectReady ==
    (IF headerProbe = "true" THEN {[branch |-> "header", on |-> TRUE]} ELSE {})
    \cup (IF dnsProbe = "true" THEN {[branch |-> "dns", on |-> TRUE]} ELSE {})
    \cup (IF elapsed >= deadline THEN {[branch |-> "timeout", on |-> FALSE]} ELSE {})

\* the select! completes by one of its ready branches; `*on_gce = Some(on)`,
\* `Ok(on)`; the meta future, if still pending, is dropped with the select!
LibOnGceSelect(c) ==
    /\ impl = "lib"
    /\ pc[c] = "select"
    /\ \E b \in SelectReady :
          /\ on_gce' = SomeBool(b.on)
          /\ result' = [result EXCEPT ![c] = Ok(b.on)]
          /\ seen' = Resolution(b.branch, <<>>)
    /\ headerProbe' = IF headerProbe = "running" THEN "dropped" ELSE headerProbe
    /\ ogLock' = Release(ogLock, c)
    /\ pc' = [pc EXCEPT ![c] = "idle"]
    /\ UNCHANGED <<impl, calls, cacheVars, probeVars, fetchVars, envVar, metadata_host, startEnv, once, dnsProbe, chan,
                   elapsed, deadline, productName, hostSeen, races>>

\* ---- metadata.rs: on_gce, ON_GCE, test_on_gce

\* the detection resolves to on: test_on_gce returns, ON_GCE is set, and the
\* caller that ran it returns `*ON_GCE`
MetaResolve(c, on, how, got) ==
    /\ on_gce' = SomeBool(on)
    /\ once' = "done"
    /\ seen' = Resolution(how, got)
    /\ result' = [result EXCEPT ![c] = Ok(on)]
    /\ pc' = [pc EXCEPT ![c] = "idle"]

\* `*ON_GCE`: the value if the cell is set; the first caller runs test_on_gce;
\* a caller that finds it running blocks until it is done
MetaOnGceCall(c) ==
    /\ impl = "meta"
    /\ pc[c] = "idle"
    /\ calls < MaxCalls
    /\ calls' = calls + 1
    /\ IF once = "done"
       THEN /\ result' = [result EXCEPT ![c] = Ok(on_gce.val)]
            /\ UNCHANGED <<pc, once>>
       ELSE /\ result' = [result EXCEPT ![c] = NoResult]
            /\ pc' = [pc EXCEPT ![c] = IF once = "new" THEN "env" ELSE "once_wait"]
            /\ once' = "running"
    /\ UNCHANGED <<impl, cacheVars, probeVars, fetchVars, envVar, metadata_host, startEnv, on_gce, ogLock, headerProbe,
                   dnsProbe, chan, elapsed, deadline, productName, hostSeen, races, seen>>

\* a caller blocked on the cell finds it set
MetaOnGceWake(c) ==
    /\ impl = "meta"
    /\ pc[c] = "once_wait"
    /\ once = "done"
    /\ result' = [result EXCEPT ![c] = Ok(on_gce.val)]
    /\ pc' = [pc EXCEPT ![c] = "idle"]
    /\ UNCHANGED <<impl, calls, cacheVars, probeVars, fetchVars, envVar, metadata_host, startEnv, on_gce, ogLock, once,
                   headerProbe, dnsProbe, chan, elapsed, deadline, productName, hostSeen,
                   races, seen>>

\* MetaEnvCheck with the probes spawned before the marker is looked at
MetaEnvCheckProbesFirst(c) ==
    /\ impl = "meta"
    /\ pc[c] = "env"
    /\ hostSeen' = envVar
    /\ headerProbe' = "running"
    /\ requests' = requests \cup {ProbeRequest(impl)}
    /\ dnsProbe' = "running"
    /\ chan' = <<>>
    /\ elapsed' = 0
    /\ races' = races + 1
    /\ IF envVar # "unset"
       THEN MetaResolve(c, TRUE, "marker", <<>>)
       ELSE /\ pc' = [pc EXCEPT ![c] = "recv1"]
            /\ UNCHANGED <<on_gce, once, seen, result>>
    /\ UNCHANGED <<impl, calls, cacheVars, probeVars, fetch, envVar, metadata_host, startEnv, ogLock, deadline,
                   productName>>

\* test_on_gce: `if env::var(METADATA_HOST_VAR).is_ok() { return true; }`, else
\* the channel is made and both probe threads are spawned
MetaEnvCheck(c) ==
    /\ impl = "meta"
    /\ pc[c] = "env"
    /\ hostSeen' = envVar
    /\ IF envVar # "unset"
       THEN /\ MetaResolve(c, TRUE, "marker", <<>>)
            /\ UNCHANGED <<requests, headerProbe, dnsProbe, chan, elapsed, races>>
       ELSE /\ headerProbe' = "running"
            /\ requests' = requests \cup {ProbeRequest(impl)}
            /\ dnsProbe' = "running"
            /\ chan' = <<>>
            /\ elapsed' = 0
            /\ races' = races + 1
            /\ pc' = [pc EXCEPT ![c] = "recv1"]
            /\ UNCHANGED <<on_gce, once, seen, result>>
    /\ UNCHANGED <<impl, calls, cacheVars, probeVars, fetch, envVar, metadata_host, startEnv, ogLock, deadline,
                   productName>>

\* MetaRecvFirst with `running_on_gce() &&` left out: a first false always
\* waits for the second report
MetaRecvFirstNoHint(c) ==
    /\ impl = "meta"
    /\ pc[c] = "recv1"
    /\ chan # <<>>
    /\ chan' = Tail(chan)
    /\ IF Head(chan)
       THEN /\ MetaResolve(c, TRUE, "report", <<Head(chan)>>)
            /\ UNCHANGED deadline
       ELSE /\ deadline' = elapsed + ProbeTimeout
            /\ pc' = [pc EXCEPT ![c] = "recv2"]
            /\ UNCHANGED <<on_gce, once, seen, result>>
    /\ UNCHANGED <<impl, calls, cacheVars, probeVars, fetchVars, envVar, metadata_host, startEnv, ogLock, headerProbe,
                   dnsProbe, elapsed, productName, hostSeen, races>>

\* `rx.recv().unwrap_or(false) || running_on_gce() && ...`: the first report
\* arrives; true ends the detection; false ends it unless running_on_gce(),
\* in which case `rx.recv_timeout(Duration::from_secs(5))` is entered
MetaRecvFirst(c) ==
    /\ impl = "meta"
    /\ pc[c] = "recv1"
    /\ chan # <<>>
    /\ chan' = Tail(chan)
    /\ IF Head(chan)
       THEN /\ MetaResolve(c, TRUE, "report", <<Head(chan)>>)
            /\ UNCHANGED deadline
       ELSE IF ~productName
            THEN /\ MetaResolve(c, FALSE, "first_false", <<Head(chan)>>)
                 /\ UNCHANGED deadline
            ELSE /\ deadline' = elapsed + ProbeTimeout
                 /\ pc' = [pc EXCEPT ![c] = "recv2"]
                 /\ UNCHANGED <<on_gce, once, seen, result>>
    /\ UNCHANGED <<impl, calls, cacheVars, probeVars, fetchVars, envVar, metadata_host, startEnv, ogLock, headerProbe,
                   dnsProbe, elapsed, productName, hostSeen, races>>

\* `rx.recv_timeout(Duration::from_secs(5)).unwrap_or(false)`: the second
\* report, or false when none has arrived by the deadline
MetaRecvSecond(c) ==
    /\ impl = "meta"
    /\ pc[c] = "recv2"
    /\ IF chan # <<>>
       THEN /\ MetaResolve(c, Head(chan), "report", <<FALSE, Head(chan)>>)
            /\ chan' = Tail(chan)
       ELSE /\ elapsed >= deadline
            /\ MetaResolve(c, FALSE, "timeout", <<FALSE>>)
            /\ UNCHANGED chan
    /\ UNCHANGED <<impl, calls, cacheVars, probeVars, fetchVars, envVar, metadata_host, startEnv, ogLock, headerProbe,
                   dnsProbe, elapsed, deadline, productName, hostSeen, races>>

\* ---- the environment

\* the detection, where it waits, can take a step now
DetectorReady ==
    \E c \in Callers :
        \/ pc[c] = "select" /\ SelectReady # {}
        \/ pc[c] = "recv1" /\ chan # <<>>
        \/ pc[c] = "recv2" /\ (chan # <<>> \/ elapsed >= deadline)

\* a second passes while the detection waits on the race with nothing to take
Tick ==
    /\ Racing
    /\ ~DetectorReady
    /\ elapsed < MaxElapsed
    /\ elapsed' = elapsed + 1
    /\ UNCHANGED <<impl, pc, result, calls, cacheVars, probeVars, fetchVars, envVar, metadata_host, startEnv, on_gce, ogLock,
                   once, headerProbe, dnsProbe, chan, deadline, productName, hostSeen, races,
                   seen>>

\* env::set_var / env::remove_var of GCE_METADATA_HOST
SetEnv(v) ==
    /\ envVar # v
    /\ envVar' = v
    /\ UNCHANGED <<impl, pc, result, calls, cacheVars, probeVars, fetchVars, metadata_host, startEnv, on_gce, ogLock, once,
                   headerProbe, dnsProbe, chan, elapsed, deadline, productName, hostSeen,
                   races, seen>>

DetectNext ==
    \/ \E c \in Callers :
          \/ LibOnGceCall(c)
          \/ LibOnGceReadLocked(c)
          \/ LibOnGceReadCheck(c)
          \/ LibOnGceWriteLocked(c)
          \/ LibOnGceWriteCheck(c)
          \/ LibOnGceSelect(c)
          \/ MetaOnGceCall(c)
          \/ MetaOnGceWake(c)
          \/ MetaEnvCheck(c)
          \/ MetaRecvFirst(c)
          \/ MetaRecvSecond(c)
    \/ \E a \in HeaderAnswers : HeaderProbeDone(a)
    \/ \E a \in DnsAnswers : DnsProbeDone(a)
    \/ Tick
    \/ \E v \in EnvValues : SetEnv(v)

\* ---- the override value as a URI

\* the values of GCE_METADATA_HOST the getters are tried with
HostInputs == {"unset", "localhost:8080", "/foo", "a b"}

\* the characters of a value, abridged
UriText(v) ==
    CASE v = "localhost:8080" -> <<"h", ":", "8">>
      [] v = "/foo" -> <<"/", "f">>
      [] v = "a b" -> <<"a", " ", "b">>
      [] OTHER -> <<>>

NoPart == <<>>

\* Uri::from_str: empty text and text with a space are refused; text that
\* begins with '/' is a path with neither scheme nor authority; other text
\* (no "://" among the inputs) is an authority alone
Uri_from_str(t) ==
    IF t = <<>> \/ (\E i \in 1..Len(t) : t[i] = " ")
    THEN [ok |-> FALSE, scheme |-> NoPart, authority |-> NoPart, path_and_query |-> NoPart]
    ELSE IF t[1] = "/"
    THEN [ok |-> TRUE, scheme |-> NoPart, authority |-> NoPart, path_and_query |-> t]
    ELSE [ok |-> TRUE, scheme |-> NoPart, authority |-> t, path_and_query |-> NoPart]

\* Uri::from_parts: with a scheme, an authority and a path are required
Uri_from_parts(parts) ==
    IF parts.scheme # NoPart
    THEN parts.authority # NoPart /\ parts.path_and_query # NoPart
    ELSE ~(parts.authority # NoPart /\ parts.path_and_query # NoPart)

\* Env::init: `Uri::from_str(&s).expect("`GCE_METADATA_HOST` is not valid URI")`
\* lets the construction go through
EnvInitOk(v) == v = "unset" \/ Uri_from_str(UriText(v)).ok

\* Client::get_parts: the parts of the host, `parts.scheme = Some(schema)`,
\* `parts.path_and_query = Some(path_and_query)`, `Uri::from_parts(parts)`
GetPartsUriOk(host) ==
    LET parts == IF host = "unset" THEN Uri_from_str(<<"1", ".", "2">>)
                 ELSE Uri_from_str(UriText(host))
    IN  Uri_from_parts([parts EXCEPT !.scheme = <<"h", "t", "t", "p">>,
                                     !.path_and_query = <<"/", "c">>])

\* get_meta: `httpc_get(format!("http://{}/computeMetadata/v1/{}", host, suffix))`
\* is given a URL that parses
MetaUrlOk(host) == \A i \in 1..Len(UriText(host)) : UriText(host)[i] # " "

\* a panic, as what a call came to
Panic == Err("(panic)", 0)

\* ----------------------------------------------------------- plain getters
\* One call of a getter that is not cached: the path is built, the request is
\* sent, and the response is turned into the getter's result.

LibGetters == {"get", "hostname", "zone", "instance_attr", "project_attr"}

MetaGetters == {"get", "get_meta", "hostname", "zone", "instance_attribute_value",
                "project_attribute_value"}

\* the attribute names (or, for get, path suffixes) a caller passes
Attrs == {<<"k">>, <<"k", " ">>}

\* hyper::http::uri::PathAndQuery::from_str: a space is no URI character
PathOk(attr) == \A i \in 1..Len(attr) : attr[i] # " "

\* the getters of attribute values; they format their argument into the path
AttrValueGetters == {"instance_attr", "project_attr", "instance_attribute_value",
                     "project_attribute_value"}

\* what instance/zone can hold
ZoneBodies == {<<"z", "/", "a">>, <<"z", "/", "a", "\n">>, <<"z", "/">>, <<"a">>, <<>>}

\* the answers the getters are tried with
FetchResponses ==
    Responses \cup [kind : {"http"}, status : {200}, body : ZoneBodies, bodyq : {"ok"}]

\* the getters that trim the body
Trims(i, g) == \/ g = "hostname"
               \/ i = "lib" /\ g = "get"

NoFetch == [getter |-> "(none)", attr |-> <<>>, resp |-> [kind |-> "(none)"],
            phase |-> "none", sent |-> FALSE, out |-> NoResult]

\* what the getter makes of the response
Outcome(i, g, resp) ==
    IF i = "lib"
    THEN CASE g = "get" -> get(resp, TRUE)
           [] g = "hostname" -> hostname(resp)
           [] g = "zone" -> zone(resp)
           [] g = "instance_attr" -> instance_attr(resp)
           [] g = "project_attr" -> project_attr(resp)
    ELSE CASE g = "get" -> metadata_get(resp)
           [] g = "get_meta" -> get_meta(resp)
           [] g = "hostname" -> metadata_hostname(resp)
           [] g = "zone" -> metadata_zone(resp)
           [] g = "instance_attribute_value" -> instance_attribute_value(resp)
           [] g = "project_attribute_value" -> project_attribute_value(resp)

\* the getter builds its path and sends the request; lib.rs: `path!(..)?`
\* returns Error::Uri before anything is sent
FetchSend ==
    /\ fetch.phase = "new"
    /\ IF impl = "lib" /\ fetch.getter \in AttrValueGetters /\ ~PathOk(fetch.attr)
       THEN /\ fetch' = [fetch EXCEPT !.phase = "done", !.out = Err("Uri", 0)]
            /\ UNCHANGED requests
       ELSE IF impl = "lib" /\ ~GetPartsUriOk(metadata_host)
       THEN \* get_parts: `Uri::from_parts(parts).unwrap()`
            /\ fetch' = [fetch EXCEPT !.phase = "done", !.out = Panic]
            /\ UNCHANGED requests
       ELSE IF impl = "meta" /\ ~MetaUrlOk(envVar)
       THEN \* attohttpc::get on a URL that does not parse, which is not code of
            \* this repository: the call panics or returns an error
            /\ \E o \in {Panic, Err("HttpRequest", 0)} :
                  fetch' = [fetch EXCEPT !.phase = "done", !.out = o]
            /\ UNCHANGED requests
       ELSE /\ fetch' = [fetch EXCEPT !.phase = "sent", !.sent = TRUE]
            /\ requests' = requests \cup {FetchRequest(impl)}
    /\ UNCHANGED <<impl, pc, result, calls, cacheVars, detectVars, probeVars>>

\* the exchange ends and the getter returns
FetchReturn ==
    /\ fetch.phase = "sent"
    /\ fetch' = [fetch EXCEPT !.phase = "done",
                              !.out = Outcome(impl, fetch.getter, fetch.resp)]
    /\ UNCHANGED <<impl, pc, result, calls, cacheVars, detectVars, requests, probeVars>>

FetchNext == FetchSend \/ FetchReturn

\* -------------------------------------------------- the probes on their own
\* One run of one probe, from what its lookup comes to, to its report.
\* lib.rs: the futures `meta` and `name` of Client::on_gce, whose output is the
\* report; metadata.rs: has_meta_header and has_target_ip, which send the
\* report on tx.

NoProbe == [fn |-> "(none)", answer |-> "(none)", ip |-> "(none)", phase |-> "none",
            tx |-> <<>>, report |-> FALSE]

NewProbe(f, a, ip) == [fn |-> f, answer |-> a, ip |-> ip, phase |-> "new", tx |-> <<>>,
                       report |-> FALSE]

\* the probes that can be run: the header probe; the DNS probe as on_gce runs
\* it; metadata.rs has_target_ip with any target
Probes(i) ==
    IF i = "lib"
    THEN {NewProbe("meta", a, "(none)") : a \in HeaderAnswers}
         \cup {NewProbe("name", a, "(none)") : a \in DnsAnswers}
    ELSE {NewProbe("has_meta_header", a, "(none)") : a \in HeaderAnswers}
         \cup {NewProbe("dns", a, METADATA_IP) : a \in DnsAnswers}
         \cup {NewProbe("has_target_ip", a, ip) : a \in DnsAnswers, ip \in Addrs}

\* the header probe runs: lib.rs `meta`, metadata.rs has_meta_header
ProbeHeader ==
    /\ probe.phase = "new"
    /\ probe.fn \in {"meta", "has_meta_header"}
    /\ LET on == HeaderReport(probe.answer) IN
       probe' = [probe EXCEPT !.phase = "done", !.report = on,
                              !.tx = IF impl = "meta" THEN Append(@, on) ELSE @]
    /\ UNCHANGED <<impl, pc, result, calls, cacheVars, detectVars, fetchVars>>

\* the DNS probe runs: lib.rs `name`, metadata.rs has_target_ip
ProbeDns ==
    /\ probe.phase = "new"
    /\ probe.fn \in {"name", "dns", "has_target_ip"}
    /\ LET on == IF impl = "lib" THEN LibDnsReport(probe.answer)
                 ELSE IF probe.fn = "dns" THEN MetaDnsReport(probe.answer)
                 ELSE has_target_ip(probe.answer, probe.ip)
       IN  probe' = [probe EXCEPT !.phase = "done", !.report = on,
                                  !.tx = IF impl = "meta" THEN Append(@, on) ELSE @]
    /\ UNCHANGED <<impl, pc, result, calls, cacheVars, detectVars, fetchVars>>

ProbeNext == ProbeHeader \/ ProbeDns

\* ------------------------------------------------------------- specifications

CallersInit ==
    /\ impl \in {"lib", "meta"}
    /\ pc = [c \in Callers |-> "idle"]
    /\ result = [c \in Callers |-> NoResult]
    /\ calls = 0

\* the entry before its first call
EntryInit ==
    /\ cache = None
    /\ lock = NoLock
    /\ State = UNINITIALIZED
    /\ writing = FALSE
    /\ pending = [c \in Callers |-> <<>>]
    /\ fetches = 0
    /\ failures = 0
    /\ ownFetch = [c \in Callers |-> FALSE]
    /\ waitedOn = [c \in Callers |-> NoResult]
    /\ blocked = [c \in Callers |-> FALSE]
    /\ spins = [c \in Callers |-> 0]

\* the cache before its first call, every caller holding a Client on it
\* (metadata.rs: the statics, which all callers share)
CacheInit ==
    /\ EntryInit
    /\ clients = [c \in Callers |-> Client_new]

\* the detection before its first call; the client (lib.rs) was constructed
\* with the environment as it is now (Env::init)
DetectInit ==
    /\ metadata_host = IF impl = "lib" THEN envVar ELSE "unset"
    /\ startEnv = envVar
    /\ requests = {}
    /\ on_gce = NoBool
    /\ ogLock = NoLock
    /\ once = "new"
    /\ headerProbe = "idle"
    /\ dnsProbe = "idle"
    /\ chan = <<>>
    /\ elapsed = 0
    /\ deadline = 0
    /\ hostSeen = "(not read)"
    /\ races = 0
    /\ seen = Unresolved

\* the cached getters
Init ==
    /\ CallersInit
    /\ CacheInit
    /\ envVar = "unset"
    /\ productName = FALSE
    /\ DetectInit
    /\ fetch = NoFetch
    /\ probe = NoProbe

Next == LibCacheNext \/ MetaCacheNext

Spec == Init /\ [][Next]_vars

\* The answers told apart where only the end of a fetch matters: one that
\* succeeds and one that fails.
LiveResponses ==
    {resp \in Responses : /\ resp.kind = "http"
                          /\ resp.status \in {200, 404}
                          /\ resp.body = <<"p", "1">>
                          /\ resp.bodyq = "ok"}

\* the steps of a call that c has started: all of c's steps but LibCall and
\* MetaCall
Continue(c) ==
    \/ LibReadLocked(c)
    \/ LibReadCheck(c)
    \/ LibWriteLocked(c)
    \/ LibWriteCheck(c)
    \/ \E resp \in LiveResponses : LibFetchDone(c, resp)
    \/ \E resp \in LiveResponses : MetaFetchDone(c, resp)
    \/ MetaStoreCache(c)
    \/ MetaStoreState(c)
    \/ MetaUnwrapRead(c)
    \/ MetaSpin(c)
    \/ MetaWaitRead(c)

LiveNext == \E c \in Callers : LibCall(c) \/ MetaCall(c) \/ Continue(c)

\* A caller that can go on with the call it is in does so in the end (threads
\* and tasks are scheduled, the tokio RwLock is FIFO), and every fetch that was
\* started comes to an end.
Fairness == \A c \in Callers : WF_vars(Continue(c))

\* the cached getters, with callers that are scheduled and fetches that end
SpecLive == Init /\ [][LiveNext]_vars /\ Fairness

\* ---- lib.rs: the cached getters called through clones of one Client

\* caller c, holding Client h, gives caller k a clone of it
\* (`let client = client.clone();` moved into k's task)
CloneClient(h, k) ==
    /\ impl = "lib"
    /\ clients[h] # NoClient
    /\ clients[k] = NoClient
    /\ clients' = [clients EXCEPT ![k] = clone(clients[h])]
    /\ UNCHANGED <<impl, pc, result, calls, cache, lock, State, writing, pending, fetches,
                   failures, ownFetch, waitedOn, blocked, spins, nonCacheVars>>

\* caller c starts `$name()` on its Client, whose cache is the one followed
CloneCall(c) ==
    /\ clients[c].cache = Client_new.cache
    /\ LibCall(c)

CloneNext ==
    \E c \in Callers :
        \/ \E k \in Callers : CloneClient(c, k)
        \/ CloneCall(c)
        \/ LibReadLocked(c)
        \/ LibReadCheck(c)
        \/ LibWriteLocked(c)
        \/ LibWriteCheck(c)
        \/ \E resp \in LiveResponses : LibFetchDone(c, resp)

\* one Client constructed, held by caller 1; the other callers hold none yet
InitClone ==
    /\ impl = "lib"
    /\ pc = [c \in Callers |-> "idle"]
    /\ result = [c \in Callers |-> NoResult]
    /\ calls = 0
    /\ EntryInit
    /\ clients = [c \in Callers |-> IF c = 1 THEN Client_new ELSE NoClient]
    /\ envVar = "unset"
    /\ productName = FALSE
    /\ DetectInit
    /\ fetch = NoFetch
    /\ probe = NoProbe

SpecClone == InitClone /\ [][CloneNext]_vars

\* on-environment detection; one fetch has yet to be sent
InitDetect ==
    /\ CallersInit
    /\ CacheInit
    /\ envVar \in EnvValues
    /\ productName \in BOOLEAN
    /\ DetectInit
    /\ fetch = [getter |-> "get", attr |-> <<"k">>,
                resp |-> [kind |-> "http", status |-> 200, body |-> <<"p", "1">>,
                          bodyq |-> "ok"],
                phase |-> "new", sent |-> FALSE, out |-> NoResult]
    /\ probe = NoProbe

\* the detection, and beside it one fetch, which any caller may send at any time
DetectFetchNext == DetectNext \/ FetchSend

SpecDetect == InitDetect /\ [][DetectFetchNext]_vars

\* the plain getters: the override value, a getter, its argument and the
\* server's answer are given
InitFetch ==
    /\ CallersInit
    /\ CacheInit
    /\ envVar \in HostInputs
    /\ productName = FALSE
    /\ DetectInit
    /\ \E g \in (IF impl = "lib" THEN LibGetters ELSE MetaGetters), a \in Attrs,
          r \in FetchResponses :
          fetch = [getter |-> g, attr |-> a, resp |-> r,
                   \* lib.rs: Client::new panics in Env::init on a value that is
                   \* no URI, and there is no client to call
                   phase |-> IF impl = "lib" /\ ~EnvInitOk(envVar) THEN "aborted" ELSE "new",
                   sent |-> FALSE, out |-> NoResult]
    /\ probe = NoProbe

SpecFetch == InitFetch /\ [][FetchNext]_vars

\* the probes on their own: a probe and what its lookup comes to are given
InitProbe ==
    /\ CallersInit
    /\ CacheInit
    /\ envVar = "unset"
    /\ productName = FALSE
    /\ DetectInit
    /\ fetch = NoFetch
    /\ probe \in Probes(impl)

SpecProbe == InitProbe /\ [][ProbeNext]_vars

\* ------------------------------------------------- claims: cached getters

\* c's current call has returned
Returned(c) == pc[c] = "idle" /\ result[c] # NoResult

\* the entry is Filled
Filled == IF impl = "lib" THEN cache.some ELSE State = INITIALIZED

\* an attempt is in flight: some caller owns the right to compute
InFlight == \E c \in Callers : pc[c] \in {"fetching", "storing", "stored"}

\* C1: as long as no fetch has failed, callers of the same getter on an empty
\* entry, however they interleave, cause at most one fetch, and every caller
\* that has returned has returned the one value that fetch produced (the value
\* now in the entry), after exactly one fetch.
C1_SingleFlight ==
    failures = 0 =>
        /\ fetches <= 1
        /\ \A c \in Callers : Returned(c) =>
              /\ fetches = 1
              /\ result[c].ok
              /\ cache = Some(result[c].val)

\* C1 witness: all callers have returned the same value from one successful
\* fetch, and all but the owner were blocked on that fetch.
C1_Witness ==
    /\ failures = 0
    /\ fetches = 1
    /\ \A c \in Callers : Returned(c) /\ result[c] = Ok(cache.val)
    /\ Cardinality({c \in Callers : blocked[c]}) = NumCallers - 1

\* C2: a failed attempt does not poison the entry. Whenever no attempt is in
\* flight and the entry is not Filled, it is Empty again (no value, the tag back
\* at UNINITIALIZED, the write lock not left held), so that the next call fetches;
\* and a call that was not blocked on a failed attempt never returns an error
\* other than that of a fetch it ran itself.
C2_NoPoisoning ==
    /\ (~InFlight /\ ~Filled) =>
          /\ cache = None
          /\ impl = "meta" => State = UNINITIALIZED
          /\ impl = "lib" => (lock.writer = 0 \/ pc[lock.writer] = "locked")
    /\ \A c \in Callers :
          (Returned(c) /\ ~result[c].ok /\ waitedOn[c] = NoResult) => ownFetch[c]

\* C2 witness: after a failed fetch a later call has fetched again, with
\* success, and the entry is Filled with what it returned.
C2_Witness ==
    /\ failures >= 1
    /\ Filled
    /\ \E c \in Callers :
          /\ Returned(c) /\ ownFetch[c] /\ ~blocked[c]
          /\ result[c] = Ok(cache.val)

\* C3, as stated: every waiter that was blocked on a failed attempt returns
\* that attempt's error, without a fetch of its own.
C3_WaitersGetOwnersError ==
    \A c \in Callers :
        (Returned(c) /\ waitedOn[c] # NoResult) =>
            /\ result[c] = waitedOn[c]
            /\ ~ownFetch[c]

\* C3, amended: the error of a failed fetch is returned to the caller that ran
\* the fetch, and to nobody else. A waiter that was blocked on the failed
\* attempt, when it returns: in lib.rs it has found the entry filled by a later
\* fetch or has run a fetch of its own, whose result it returns; in metadata.rs
\* it has run no fetch, and any error it returns is Uninitialized.
C3_ErrorToOwnerOnly ==
    \A c \in Callers :
        /\ (Returned(c) /\ ~result[c].ok /\ result[c].err # "Uninitialized") => ownFetch[c]
        /\ (Returned(c) /\ waitedOn[c] # NoResult) =>
              IF impl = "lib"
              THEN ownFetch[c] \/ (result[c].ok /\ cache = Some(result[c].val))
              ELSE ~ownFetch[c] /\ (result[c].ok \/ result[c].err = "Uninitialized")

\* C3 witness: a waiter blocked on a failed attempt has returned something
\* other than that attempt's error.
C3_Witness ==
    \E c \in Callers :
        /\ Returned(c)
        /\ waitedOn[c] # NoResult
        /\ result[c] # waitedOn[c]
        /\ ~result[c].ok

\* C4: once an entry is Filled it stays Filled with the same value, no further
\* fetch starts, and every call that returns returns that value.
C4_FilledIsFinal ==
    [][Filled =>
          /\ Filled'
          /\ cache.some
          /\ cache' = cache
          /\ fetches' = fetches
          /\ \A c \in Callers :
                (pc[c] # "idle" /\ pc'[c] = "idle") => result'[c] = Ok(cache.val)
      ]_vars

\* C4 witness: a call made on a Filled entry has returned the cached value
\* without having fetched or waited.
C4_Witness ==
    /\ Filled
    /\ fetches = 1
    /\ \E c \in Callers :
          /\ Returned(c) /\ ~ownFetch[c] /\ ~blocked[c]
          /\ result[c] = Ok(cache.val)

\* ---------------------------------------- claims: on-environment detection

\* the detection read the override marker and found it set
MarkerSet == IF impl = "lib" THEN metadata_host # "unset"
             ELSE hostSeen \notin {"(not read)", "unset"}

\* C5: with the override marker set (lib.rs: in the Env the client was built
\* with; metadata.rs: when test_on_gce reads it), no probe is ever launched and
\* detection resolves, and every call returns, true.
C5_MarkerShortCircuit ==
    MarkerSet =>
        /\ races = 0
        /\ headerProbe = "idle"
        /\ dnsProbe = "idle"
        /\ on_gce.some => on_gce = SomeBool(TRUE)
        /\ \A c \in Callers : Returned(c) => result[c] = Ok(TRUE)

\* C5 witness: a call has returned true on the marker alone.
C5_Witness ==
    /\ MarkerSet
    /\ seen.how = "marker"
    /\ races = 0
    /\ \E c \in Callers : Returned(c) /\ result[c] = Ok(TRUE)

\* the timeout that is armed, if one is, has been reached
TimedOut == deadline > 0 /\ elapsed >= deadline

\* the detection waits on the race, one probe has reported true, the other
\* has not completed, and the timeout has not been reached
FirstTrue ==
    /\ Racing
    /\ \/ headerProbe = "true" /\ dnsProbe = "running"
       \/ dnsProbe = "true" /\ headerProbe = "running"
    /\ ~TimedOut

\* C6: first success wins. Where one probe has reported true and the other is
\* still running, before the timeout, the detection does not wait: no time
\* passes there, and if it resolves there it resolves true, with the other
\* probe still running.
C6_FirstSuccessWins ==
    [][FirstTrue =>
          /\ elapsed' = elapsed
          /\ on_gce' # on_gce =>
                /\ on_gce' = SomeBool(TRUE)
                /\ "running" \in {seen'.header, seen'.dns}
      ]_vars

\* C6 witness: the DNS probe reported true first and detection resolved true
\* while the header probe was still running.
C6_Witness ==
    /\ on_gce = SomeBool(TRUE)
    /\ seen.dns = "true"
    /\ seen.header = "running"
    /\ seen.at < ProbeTimeout

\* C7, as stated: detection resolves false only when both probes have
\* reported false or the timeout has elapsed.
C7_FalseNeedsBothOrTimeout ==
    on_gce = SomeBool(FALSE) =>
        \/ seen.header = "false" /\ seen.dns = "false"
        \/ seen.how = "timeout"

\* C7, amended: in lib.rs a probe's false never ends the race, and detection
\* resolves false only by the timeout, at ProbeTimeout seconds. In metadata.rs
\* detection resolves false on a first report of false: at once, when
\* running_on_gce() is false; otherwise after a second report of false, or
\* when no second report has come ProbeTimeout seconds after the first.
C7_FalseResolution ==
    on_gce = SomeBool(FALSE) =>
        IF impl = "lib"
        THEN seen.how = "timeout" /\ seen.at = ProbeTimeout
        ELSE /\ seen.got # <<>>
             /\ seen.got[1] = FALSE
             /\ IF ~productName
                THEN seen.how = "first_false" /\ seen.got = <<FALSE>>
                ELSE \/ seen.how = "report" /\ seen.got = <<FALSE, FALSE>>
                     \/ seen.how = "timeout" /\ seen.got = <<FALSE>> /\ seen.at = deadline

\* C7 witness: metadata.rs has resolved false on one report of false, the
\* other probe still running and no timeout reached.
C7_Witness ==
    /\ impl = "meta"
    /\ on_gce = SomeBool(FALSE)
    /\ seen.how = "first_false"
    /\ "running" \in {seen.header, seen.dns}
    /\ seen.at < ProbeTimeout

\* C8, as stated: one timeout of ProbeTimeout seconds governs the race: the
\* detection never waits on the probes beyond it, and a detection that ends
\* by timeout ends false at ProbeTimeout seconds.
C8_OneTimeoutGovernsRace ==
    /\ Racing => elapsed <= ProbeTimeout
    /\ seen.how = "timeout" => (on_gce = SomeBool(FALSE) /\ seen.at = ProbeTimeout)

\* C8, amended: in lib.rs the timeout is armed when the race begins, the
\* detection never waits beyond it, a detection ended by it ends false at
\* ProbeTimeout seconds, and a detection that ends with no probe having
\* reported true ends by it. In metadata.rs no timeout is armed while the
\* first report is awaited; the timeout runs from the first report, bounds the
\* wait for the second, and ends the detection false.
C8_TimeoutFallback ==
    IF impl = "lib"
    THEN /\ Racing => (deadline = ProbeTimeout /\ elapsed <= ProbeTimeout)
         /\ seen.how = "timeout" => (on_gce = SomeBool(FALSE) /\ seen.at = ProbeTimeout)
         /\ (on_gce.some /\ seen.how # "marker" /\ seen.header # "true" /\ seen.dns # "true")
               => seen.how = "timeout"
    ELSE /\ \A c \in Callers : pc[c] = "recv1" => deadline = 0
         /\ \A c \in Callers : pc[c] = "recv2" => (deadline >= ProbeTimeout /\ elapsed <= deadline)
         /\ seen.how = "timeout" =>
               /\ on_gce = SomeBool(FALSE)
               /\ productName
               /\ seen.got = <<FALSE>>
               /\ seen.at = deadline

\* C8 witness: lib.rs has resolved false by the timeout with neither probe
\* completed.
C8_Witness ==
    /\ impl = "lib"
    /\ on_gce = SomeBool(FALSE)
    /\ seen.how = "timeout"
    /\ seen.header = "running"
    /\ seen.dns = "running"

\* C9: the probes are launched at most once, every call that has returned has
\* returned the resolved flag, and the flag, once set, true or false, never
\* changes.
C9_Memoized ==
    /\ [](/\ races <= 1
          /\ \A c \in Callers : Returned(c) => (on_gce.some /\ result[c] = Ok(on_gce.val)))
    /\ [][on_gce.some => on_gce' = on_gce]_vars

\* C9 witness: every caller has returned the false that one race resolved.
C9_Witness ==
    /\ races = 1
    /\ calls = MaxCalls
    /\ on_gce = SomeBool(FALSE)
    /\ \A c \in Callers : Returned(c) /\ result[c] = Ok(FALSE)

\* ------------------------------------------------------ claims: plain getters

\* a getter call has returned after its request was answered
Fetched == fetch.phase = "done" /\ fetch.sent

\* the getters that return the body as fetched (the zone getter parses it)
ReturnsBody(g) == g # "zone"

\* C10, as stated: a 200 response (read whole, valid UTF-8) yields the body; a
\* 404 response is returned by the attribute value getters as "no value", not
\* as an error; any other status, and a transport failure, is an error.
C10_StatusCodeContract ==
    Fetched =>
        LET r == fetch.resp
            o == fetch.out
        IN  /\ (r.kind = "http" /\ r.status = 200 /\ r.bodyq = "ok" /\ ReturnsBody(fetch.getter))
                  => (o.ok /\ o.some)
            /\ (r.kind = "http" /\ r.status = 404 /\ fetch.getter \in AttrValueGetters)
                  => o = OkNone
            /\ (r.kind = "http" /\ r.status \notin {200, 404}) => ~o.ok
            /\ r.kind = "transport" => ~o.ok

\* C10, amended: a 200 response yields the body (trimmed by the getters that
\* trim) when the body is read whole and is valid UTF-8, and an error
\* otherwise. A 404 is "no value" from metadata.rs get,
\* instance_attribute_value and project_attribute_value only; lib.rs
\* Client::instance_attr and Client::project_attr return it as
\* Error::StatusCode, as every getter returns every other status than 200. A
\* transport failure is an error.
C10_StatusCodes ==
    Fetched =>
        LET r == fetch.resp
            o == fetch.out
            g == fetch.getter
        IN  /\ (r.kind = "http" /\ r.status = 200 /\ r.bodyq = "ok" /\ ReturnsBody(g)) =>
                  o = Ok(IF Trims(impl, g) THEN Trim(r.body) ELSE r.body)
            /\ (r.kind = "http" /\ r.status = 200 /\ r.bodyq # "ok") =>
                  (~o.ok /\ o.err \in {"Http", "Encoding", "HttpRequest"})
            /\ (r.kind = "http" /\ r.status = 404) =>
                  IF impl = "meta" /\ g \in AttrValueGetters \cup {"get"}
                  THEN o = OkNone
                  ELSE ~o.ok /\ o.status = 404 /\ o.err \in {"StatusCode", "HttpResponse"}
            /\ (r.kind = "http" /\ r.status \notin {200, 404}) =>
                  (~o.ok /\ o.status = r.status /\ o.err \in {"StatusCode", "HttpResponse"})
            /\ r.kind = "transport" => (~o.ok /\ o.err \in {"Http", "HttpRequest"})

\* C10 witness: lib.rs Client::instance_attr has returned a 404 as the error
\* Error::StatusCode.
C10_Witness ==
    /\ Fetched
    /\ impl = "lib"
    /\ fetch.getter = "instance_attr"
    /\ fetch.resp.status = 404
    /\ fetch.out = Err("StatusCode", 404)

\* ------------------------------------------- claims: requests and the host

\* C11, as stated: every HTTP request issued, fetch or header probe, carries
\* Metadata-Flavor: Google and the library's user agent.
C11_EveryRequestIdentified ==
    \A r \in requests : FlavorHeader \in r.headers /\ UserAgentHeader \in r.headers

\* C11, amended: every request carries the user agent; every fetch, and
\* lib.rs's header probe, carries Metadata-Flavor: Google too; metadata.rs's
\* header probe carries the user agent only.
C11_RequestHeaders ==
    \A r \in requests :
        /\ UserAgentHeader \in r.headers
        /\ IF impl = "meta" /\ r.by = "probe"
           THEN r.headers = {UserAgentHeader}
           ELSE FlavorHeader \in r.headers

\* C11 witness: metadata.rs has issued a fetch and the header probe.
C11_Witness ==
    /\ impl = "meta"
    /\ \E r \in requests : r.by = "fetch"
    /\ \E r \in requests : r.by = "probe"
    /\ headerProbe # "idle"

\* C12, as stated: the host is fixed at construction: every fetch goes to the
\* host GCE_METADATA_HOST named then, and the detection decides on the marker
\* as it was then, whatever the variable is changed to afterwards.
C12_HostFixedAtConstruction ==
    /\ \A r \in requests : r.by = "fetch" => r.host = HostOf(startEnv)
    /\ hostSeen # "(not read)" => hostSeen = startEnv

\* C12, amended: in lib.rs the host is read once, at construction: every fetch
\* goes to the host named then and the detection decides on the marker as it
\* was then. In metadata.rs nothing is read at start: each fetch goes to the
\* host the variable names when that fetch is made, and the detection reads
\* the marker once, in the first on_gce call, after which its outcome is fixed.
C12_HostResolution ==
    /\ [](impl = "lib" =>
             /\ metadata_host = startEnv
             /\ \A r \in requests : r.by = "fetch" => r.host = HostOf(startEnv)
             /\ hostSeen # "(not read)" => hostSeen = startEnv)
    /\ [][impl = "meta" =>
             /\ \A r \in requests' \ requests : r.by = "fetch" => r.host = HostOf(envVar)
             /\ hostSeen' # hostSeen => (hostSeen = "(not read)" /\ hostSeen' = envVar)
             /\ on_gce.some => on_gce' = on_gce
         ]_vars

\* C12 witness: the variable was set after the start, and metadata.rs has sent
\* a fetch to the host it names and resolved the detection on it.
C12_Witness ==
    /\ impl = "meta"
    /\ startEnv = "unset"
    /\ \E r \in requests : r.by = "fetch" /\ r.host = "localhost:8080"
    /\ on_gce = SomeBool(TRUE)
    /\ seen.how = "marker"

\* -------------------------------------------- claims: the override value

\* the value names a host that requests can be sent to
Usable(v) ==
    \/ v = "unset"
    \/ /\ Uri_from_str(UriText(v)).ok
       /\ Uri_from_str(UriText(v)).authority # NoPart

\* C13: no getter panics: whatever override value the construction accepted
\* and whatever the server answers, a getter call that has ended has returned
\* a value or a typed error.
C13_NoGetterPanics ==
    fetch.phase = "done" => fetch.out # Panic

\* C14: an invalid override value is rejected when the client is constructed:
\* with a value that names no usable host, no getter call ever gets as far as
\* failing at run time.
C14_InvalidHostFatalAtStart ==
    ~Usable(startEnv) => fetch.phase \notin {"sent", "done"}

\* ------------------------------------------------------- claims: the probes

ProbeDone(fns) == probe.phase = "done" /\ probe.fn \in fns

\* C15: the header probe reports true exactly when the response carries
\* Metadata-Flavor: Google; no header, another value and a transport failure
\* make it report false (metadata.rs: it sends that one report on tx).
C15_HeaderProbe ==
    ProbeDone({"meta", "has_meta_header"}) =>
        /\ probe.report <=> probe.answer = "Google"
        /\ probe.answer \in {"absent", "other", "transport_error"} => ~probe.report
        /\ impl = "meta" => probe.tx = <<probe.report>>

\* C15 witness: the header probe has reported false on a response whose
\* Metadata-Flavor header has another value.
C15_Witness ==
    /\ ProbeDone({"meta", "has_meta_header"})
    /\ probe.answer = "other"
    /\ ~probe.report

\* C16, as stated: the DNS probe reports true whenever the resolution
\* succeeds with at least one address, whatever the address, and false when
\* it fails or returns no address.
C16_DnsAnyAddress ==
    ProbeDone({"name", "dns"}) =>
        (probe.report <=> (probe.answer.ok /\ probe.answer.addrs # {}))

\* C16, amended: lib.rs as stated; metadata.rs reports true only when one of
\* the addresses is the documented metadata address 169.254.169.254, and
\* false when the name resolves to other addresses only, to none, or not at all.
C16_DnsProbe ==
    ProbeDone({"name", "dns"}) =>
        IF impl = "lib"
        THEN probe.report <=> (probe.answer.ok /\ probe.answer.addrs # {})
        ELSE /\ probe.report <=> (probe.answer.ok /\ METADATA_IP \in probe.answer.addrs)
             /\ probe.tx = <<probe.report>>

\* C16 witness: metadata.rs's DNS probe has reported false on a resolution
\* that succeeded with addresses other than the documented one.
C16_Witness ==
    /\ ProbeDone({"dns"})
    /\ impl = "meta"
    /\ probe.answer.ok
    /\ probe.answer.addrs # {}
    /\ METADATA_IP \notin probe.answer.addrs
    /\ ~probe.report

\* C17: has_target_ip(tx, host, ip) sends exactly one boolean on tx: true if
\* and only if the addresses host resolves to contain ip, false when it
\* resolves to other addresses only or does not resolve.
C17_HasTargetIp ==
    ProbeDone({"has_target_ip"}) =>
        /\ Len(probe.tx) = 1
        /\ probe.tx[1] <=> (probe.answer.ok /\ probe.ip \in probe.answer.addrs)
        /\ (~probe.answer.ok \/ probe.ip \notin probe.answer.addrs) => probe.tx = <<FALSE>>

\* C17 witness: has_target_ip has sent true for a host that resolves to the
\* target and to another address.
C17_Witness ==
    /\ ProbeDone({"has_target_ip"})
    /\ probe.answer.ok
    /\ probe.ip \in probe.answer.addrs
    /\ Cardinality(probe.answer.addrs) > 1
    /\ probe.tx = <<TRUE>>

\* ---------------------------------------------------- claims: the zone getter

\* x is the last '/'-delimited segment of s
IsLastSegmentOf(x, s) ==
    /\ \A i \in 1..Len(x) : x[i] # "/"
    /\ \/ x = s
       \/ \E i \in 1..Len(s) : s[i] = "/" /\ x = SubSeq(s, i + 1, Len(s))

\* the zone getter has returned on a 200 response with a readable body
ZoneFetched ==
    /\ Fetched
    /\ fetch.getter = "zone"
    /\ fetch.resp.status = 200
    /\ fetch.resp.bodyq = "ok"

Owners == {c \in Callers : pc[c] \in {"fetching", "storing", "stored"}}

\* C19: at most one fetch is in flight for the entry at any time, also after
\* failed attempts; in metadata.rs the tag is INITIALIZING exactly while a
\* caller owns the computation, in lib.rs the fetching caller holds the
\* write lock.
C19_OneFetchInFlight ==
    /\ Cardinality(Owners) <= 1
    /\ impl = "meta" => (State = INITIALIZING <=> Owners # {})
    /\ impl = "lib" => \A c \in Owners : lock.writer = c

\* C19 witness: after a failed attempt a caller is fetching again while
\* another caller waits.
C19_Witness ==
    /\ failures >= 1
    /\ \E c \in Callers : pc[c] = "fetching"
    /\ \E c \in Callers : pc[c] \in {"spin", "write_wait", "read_wait"}

\* the places where a caller is about to read the cached value
ReadPcs == {"wait_read", "own_read", "init_read", "reading"}

\* C20: no read of the cached value overlaps a write of it, and no caller
\* returns a partially written value.
C20_NoPartialRead ==
    /\ ~(writing /\ \E c \in Callers : pc[c] \in ReadPcs)
    /\ impl = "lib" => (lock.writer # 0 => lock.readers = {})
    /\ \A c \in Callers : result[c].ok => result[c].val # Garbage

\* ------------------------------------------- claims: the waiter's outcome

Uninitialized == Err("Uninitialized", 0)

\* C21, as stated: no cached getter ever returns the race-inconsistency error
\* Uninitialized.
C21_UninitializedUnreachable ==
    \A c \in Callers : result[c] # Uninitialized

\* C21, amended: lib.rs never returns Uninitialized. In metadata.rs it is
\* returned only to a call that found the entry in flight and ran no fetch of
\* its own, and only after a fetch has failed; a call that ran the fetch, or
\* that found the entry Filled, never returns it.
C21_UninitializedOnlyToWaiters ==
    \A c \in Callers :
        result[c] = Uninitialized =>
            /\ impl = "meta"
            /\ blocked[c]
            /\ ~ownFetch[c]
            /\ failures >= 1

\* C21 witness: a waiter that was blocked on a failed attempt has returned
\* Uninitialized while no store to the cell was in progress.
C21_Witness ==
    \E c \in Callers :
        /\ Returned(c)
        /\ result[c] = Uninitialized
        /\ waitedOn[c] # NoResult
        /\ cache = None
        /\ ~writing

\* ------------------------------------------------ claims: how a waiter waits

\* the callers waiting on an entry in flight: queued on the entry's lock while
\* a caller fetches under the write lock (lib.rs), or in the waiter's loop
\* while the tag is INITIALIZING (metadata.rs)
Waiting ==
    IF impl = "lib"
    THEN {c \in LibWaiters : \E d \in Callers : pc[d] = "fetching"}
    ELSE {c \in MetaWaiters : State = INITIALIZING}

\* C22, as stated: a caller that finds the entry in flight takes no step of
\* its own while it waits; it never polls the entry's state.
C22_NoBusyPoll ==
    \A c \in Callers : spins[c] = 0

\* C22, amended: a waiter stays where it is until the owner's attempt has
\* ended. In lib.rs it is suspended on the entry's lock and takes no step
\* while the fetch runs. In metadata.rs it polls: each turn of its loop loads
\* the tag and changes nothing else, and it leaves the loop only when the tag
\* it loads is not INITIALIZING.
C22_WaitsForOwner ==
    /\ [](impl = "lib" => \A c \in Callers : spins[c] = 0)
    /\ [][\A c \in Waiting :
              /\ pc'[c] = pc[c]
              /\ result'[c] = result[c]
              /\ spins'[c] # spins[c] =>
                    /\ impl = "meta"
                    /\ UNCHANGED <<pc, result, cache, State, writing, fetches, failures>>]_vars

\* C22 witness: in metadata.rs a waiter has loaded the tag MaxSpins times and
\* found it INITIALIZING each time, the owner's fetch still running.
C22_Witness ==
    \E c \in Waiting :
        /\ impl = "meta"
        /\ spins[c] = MaxSpins
        /\ \E d \in Callers : pc[d] = "fetching"

\* ------------------------------------------------- claims: the late probe

\* a probe that was running completes in this step
ProbeCompletes ==
    \/ headerProbe = "running" /\ headerProbe' \in {"true", "false"}
    \/ dnsProbe = "running" /\ dnsProbe' \in {"true", "false"}

\* C23: once the detection has resolved, the completion of a probe changes
\* nothing but the probe: the flag keeps its value, no detection pass starts
\* (no probe is launched, no caller moves), and the report is not queued for
\* anybody; and the flag never differs from what the detection resolved to.
C23_LateProbeDiscarded ==
    /\ [][(on_gce.some /\ ProbeCompletes) =>
              UNCHANGED <<on_gce, races, requests, pc, result, once, chan, ogLock, seen>>]_vars
    /\ [][on_gce.some => (on_gce' = on_gce /\ races' = races)]_vars

\* C23 witness: the detection resolved to false by the timeout while the DNS
\* probe was still running, and the probe has since completed with true.
C23_Witness ==
    /\ on_gce = SomeBool(FALSE)
    /\ seen.how = "timeout"
    /\ seen.dns = "running"
    /\ dnsProbe = "true"
    /\ races = 1

\* --------------------------------------------------- claims: termination

\* the callers queued for the write lock of the entry
WriteRequesters == {lock.queue[i][1] : i \in {j \in DOMAIN lock.queue : lock.queue[j][2] = "w"}}

\* C24: every call of a cached getter returns in the end, whatever the
\* interleaving and whichever fetches fail, when every fetch ends; no caller
\* asks for the write lock while it holds the read lock, and no call ends in
\* a panic.
C24_EveryCallReturns ==
    /\ [](\A c \in WriteRequesters : c \notin lock.readers)
    /\ [](\A c \in Callers : pc[c] # "panicked")
    /\ \A c \in Callers : (pc[c] # "idle") ~> Returned(c)

\* C24 witness: all the calls have been made and have returned, one of them
\* after waiting on an attempt that failed.
C24_Witness ==
    /\ calls = MaxCalls
    /\ failures >= 1
    /\ \A c \in Callers : Returned(c)
    /\ \E c \in Callers : waitedOn[c] # NoResult

\* --------------------------------------------- claims: the tag and the cell

\* C25: in metadata.rs, whenever STATE is INITIALIZED the CACHE cell holds a
\* value and no store to it is in progress; a value, once in the cell, is never
\* cleared or replaced; so the unwrap of the owner after its store and of a
\* caller that found INITIALIZED reads a value, and no call panics.
C25_InitializedHasValue ==
    /\ [](impl = "meta" =>
            /\ State = INITIALIZED => (cache.some /\ ~writing)
            /\ \A c \in Callers :
                  /\ pc[c] \in {"own_read", "init_read"} => (cache.some /\ ~writing)
                  /\ pc[c] # "panicked"
                  /\ result[c] # Panic)
    /\ [][(impl = "meta" /\ cache.some) => cache' = cache]_vars

\* C25 witness: the owner has stored the value, set the tag and returned what
\* it read back, and a later caller, having found INITIALIZED, is at its unwrap.
C25_Witness ==
    /\ impl = "meta"
    /\ State = INITIALIZED
    /\ \E c \in Callers : Returned(c) /\ ownFetch[c] /\ result[c] = Ok(cache.val)
    /\ \E c \in Callers : pc[c] = "init_read"

\* ----------------------------------------------------------- claims: clones

\* the callers that hold a Client
Holders == {c \in Callers : clients[c] # NoClient}

\* C26: every clone of the Client points at the cache of the Client it was
\* cloned from, so all of them share one entry: callers on different clones
\* cause at most one fetch at a time and, while no fetch fails, one fetch in
\* all; and once the entry is filled through one clone, a call through any
\* other returns that value and no fetch starts.
C26_ClonesShareCache ==
    /\ [](\A c \in Holders : clients[c].cache = Client_new.cache)
    /\ [](Cardinality(Owners) <= 1)
    /\ [](failures = 0 => fetches <= 1)
    /\ [](\A c \in Callers : (cache.some /\ Returned(c)) =>
              (result[c] = Ok(cache.val) \/ (~result[c].ok /\ ownFetch[c])))
    /\ [][cache.some => (cache' = cache /\ fetches' = fetches)]_vars

\* C26 witness: every caller holds a Client, the entry was filled by a call
\* through one of them, and a call through another has returned the value
\* without a fetch of its own.
C26_Witness ==
    /\ Holders = Callers
    /\ fetches = 1
    /\ \E c, d \in Callers :
          /\ c # d
          /\ Returned(c) /\ ownFetch[c] /\ result[c] = Ok(cache.val)
          /\ Returned(d) /\ ~ownFetch[d] /\ result[d] = Ok(cache.val)

====
